---- MODULE Spec2Model ----
(***************************************************************************)
(* AR session lifecycle of memory-lane-ar: the MindARScene component       *)
(* (src/src/components/ar/MindARScene.tsx) driven by ARExperience          *)
(* (src/src/components/ar/ARExperience.tsx).                               *)
(*                                                                         *)
(* One "attempt" is one run of the load-and-init effect of MindARScene:    *)
(* its closure variable `mounted`, the position of its loadAndInit         *)
(* coroutine, the object URL and the engine instance (MindARThree) it      *)
(* created.  Attempt i owns object URL i, blob i and engine instance i.    *)
(* Every action is one JavaScript macrotask: an event handler or a promise *)
(* settlement together with all the microtask continuations it triggers.   *)
(***************************************************************************)
EXTENDS Integers, Sequences, FiniteSets, TLC

VARIABLES
    badImages,      \* the image identities the browser cannot decode (fixed by their content)
    libs,           \* which of window.MINDAR / window.THREE are defined
    comp,           \* MindARScene instance: "init" (never rendered), "mounted", "unmounted"
    targetImageSrc, \* prop targetImageSrc ("none" before the first render)
    videoSrc,       \* prop videoSrc
    attempts,       \* one record per run of the load-and-init effect
    mindarRef,      \* mindarRef.current: attempt whose engine instance it holds, 0 = null
    mindFileUrl,    \* state mindFileUrl: attempt whose object URL it holds, 0 = null
    isInitialized,  \* state isInitialized
    error,          \* state error ("none" = null)
    arTargets,      \* arCache.targets: image -> blob (attempt that exported it), 0 = absent
    revoked,        \* object URLs passed to URL.revokeObjectURL
    isTracking,     \* ARExperience state isTracking
    videoPlaying,   \* the hidden overlay <video> element is playing
    \* -- UploadModal (cache-bearing variant, src/unnamed/part_001) and its environment
    isUploadOpen,   \* ARExperience state isUploadOpen = prop isOpen of UploadModal
    targetImage,    \* state targetImage ("none" = null)
    videoUrl,       \* state videoUrl ("none" = null)
    reading,        \* image a FileReader is reading ("none" = no read in flight)
    isCompiling,    \* state isCompiling
    compileProgress,\* state compileProgress
    cachedContents, \* state cachedContents: the list the modal shows
    store,          \* localStorage item "ar_content_cache"
    clock,          \* Date.now(), counted in recordings
    run,            \* the handleStartAR call in flight: its position and the values its closure captured
    last,           \* of the handler that ran last: whether it threw, what it passed to onUploadComplete
    \* -- script loader of the MindARScene variant that loads the engine itself
    winMods,        \* which of window.THREE, MINDAR.IMAGE.Compiler, MINDAR.IMAGE.MindARThree are defined
    scripts,        \* module -> number of <script> elements appended for it
    loads,          \* one record per run of that variant's load-and-init effect
    setupError,     \* that variant's state error
    \* -- ARExperience (src/src/components/ar/ARExperience.tsx)
    appState,       \* state appState
    loadingProgress,\* state loadingProgress
    loadTimer,      \* the loading effect's pending timer: "interval", "timeout" or "none"
    mediaPending,   \* getUserMedia calls of handleStartAR not yet settled
    arContent,      \* state arContent (NoContent = null)
    isPanelOpen     \* state isPanelOpen

sceneVars == <<badImages, libs, comp, targetImageSrc, videoSrc, attempts, mindarRef, mindFileUrl,
               isInitialized, error, arTargets, revoked, isTracking, videoPlaying>>

modalVars == <<isUploadOpen, targetImage, videoUrl, reading, isCompiling, compileProgress,
               cachedContents, store, clock, run, last>>

loaderVars == <<winMods, scripts, loads, setupError>>

appVars == <<appState, loadingProgress, loadTimer, mediaPending, arContent, isPanelOpen>>

vars == <<sceneVars, modalVars, loaderVars, appVars>>

\* ---------------------------------------------------------------- bounds
MaxAttempts == 3

\* recordings (saveToCache calls) one behaviour makes
MaxRecords == 6

\* bound on the load-and-init effect runs followed under fair settling
MaxFairAttempts == 2

\* presses of "Start" whose getUserMedia call is pending at the same time
MaxMediaCalls == 2

\* ---------------------------------------------------------------- inputs
Images == {"imgA", "imgB"}
Videos == {"vid1", "vid2"}
Libs == {"MINDAR", "THREE"}


\* ------------------------------------------------------- program constants
maxWaitTime == 5000
PollInterval == 100
\* Date.now() - startTime as observed after a sleep; a sleep lasts at least
\* PollInterval and may last longer (timers are only lower bounds).
TimePoints == {100, 5000}

ErrLoad == "Failed to load AR libraries. Please refresh the page."
ErrImage == "Failed to load target image"
ErrEngine == "message of the error the engine's compiler rejected with"
ErrStart == "message of the error the engine's start rejected with"
Errors == {ErrLoad, ErrImage, ErrEngine, ErrStart}

Pcs == {"wait", "decode", "compile", "export", "start", "started", "error", "dropped"}

NewAttempt(img, captured) ==
    [img |-> img, mounted |-> TRUE, pc |-> "wait", elapsed |-> 0,
     captured |-> captured, url |-> FALSE, blob |-> 0, hit |-> FALSE, ci |-> FALSE,
     eng |-> "none", stopped |-> FALSE, restop |-> FALSE, loop |-> FALSE, vis |-> FALSE, staleCb |-> FALSE,
     tornAt |-> "none", lateInit |-> FALSE, errSet |-> FALSE, again |-> FALSE,
     failed |-> "none"]

\* ------------------------------------------ UploadModal: values and constants
\* `if (contents.length > 5) contents = contents.slice(0, 5)`
Capacity == 5
\* setInterval(..., 200) and setTimeout(resolve, 1500) of handleStartAR
TickInterval == 200
CompileDelay == 1500

\* A CachedContent object.
Entry(img, vid, ts) == [targetImage |-> img, videoUrl |-> vid, timestamp |-> ts]
NoEntry == Entry("none", "none", 0)
\* The single object a store written in the older, one-item format holds.
\* Its video reference is the blob: URL that URL.createObjectURL returned in the
\* page load that wrote it; every such URL is unique, and it resolves only in
\* the document that created it.
EarlierVideo == "vid0"
LegacyEntry == Entry("imgA", EarlierVideo, 0)

\* Values of localStorage.getItem(CACHE_KEY): null, a string JSON.parse rejects,
\* the JSON of one object, the JSON of an array.
Absent == [k |-> "absent", v |-> << >>, o |-> NoEntry]
Corrupt == [k |-> "corrupt", v |-> << >>, o |-> NoEntry]
Object(e) == [k |-> "object", v |-> << >>, o |-> e]
Array(seq) == [k |-> "array", v |-> seq, o |-> NoEntry]

\* How localStorage behaves while one handler runs: "ok", "full" (setItem
\* throws), "denied" (getItem and setItem throw).
StorageModes == {"ok", "full", "denied"}
\* the behaviours a handler that only reads / only writes can tell apart
ReadModes == {"ok", "denied"}
WriteModes == {"ok", "full"}

\* Arguments of an onUploadComplete call; NoContent = not called.
Content(img, vid) == [img |-> img, vid |-> vid]
NoContent == Content("none", "none")

NoRun == [pc |-> "idle", img |-> "none", vid |-> "none"]
Did(threw, notified) == [threw |-> threw, notified |-> notified]
Quiet == Did(FALSE, NoContent)

\* The modal as constructed and never used, over an empty working store.
ModalAtRest ==
    /\ isUploadOpen = FALSE
    /\ targetImage = "none"
    /\ videoUrl = "none"
    /\ reading = "none"
    /\ isCompiling = FALSE
    /\ compileProgress = 0
    /\ cachedContents = << >>
    /\ store = Absent
    /\ clock = 0
    /\ run = NoRun
    /\ last = Quiet

\* ------------------------------------------- script loader: values and constants
LoaderMods == {"THREE", "Compiler", "MindARThree"}
ErrSetup == "Failed to setup AR. Please refresh and try again."
\* failed: what went wrong in the run ("setup": a module, "image": the target
\* image); shown: the message its catch passed to setError.
NewLoad == [pc |-> "begin", mounted |-> TRUE, failed |-> "none", shown |-> "none"]

\* The loader before the variant component is rendered, no module defined.
LoaderAtRest ==
    /\ winMods = {}
    /\ scripts = [m \in LoaderMods |-> 0]
    /\ loads = << >>
    /\ setupError = "none"

\* ARExperience as constructed: the useState initial values, the loading
\* effect's interval armed.
AppAtRest ==
    /\ appState = "loading"
    /\ loadingProgress = 0
    /\ loadTimer = "interval"
    /\ mediaPending = 0
    /\ arContent = NoContent
    /\ isPanelOpen = FALSE

Init ==
    /\ ModalAtRest
    /\ LoaderAtRest
    /\ AppAtRest
    /\ badImages \in SUBSET Images
    /\ libs \in SUBSET Libs
    /\ comp = "init"
    /\ targetImageSrc = "none"
    /\ videoSrc = "none"
    /\ attempts = << >>
    /\ mindarRef = 0
    /\ mindFileUrl = 0
    /\ isInitialized = FALSE
    /\ error = "none"
    /\ arTargets = [x \in Images |-> 0]
    /\ revoked = {}
    /\ isTracking = FALSE
    /\ videoPlaying = FALSE

\* ------------------------------------------------------------ code guards
\* new Image() with src = img fires onload (TRUE) or onerror (FALSE)
Decodable(img) == img \notin badImages

\* (variant that never finds an entry)
CacheHas_never(img) == FALSE

\* compileTargetImage: arCache.targets.has(imageSrc)
CacheHas(img) == arTargets[img] # 0

\* (variant without the check)
StillMounted_unchecked(a) == TRUE

\* loadAndInit: `if (!mounted) return;` after `await compileTargetImage(...)`
StillMounted(a) == a.mounted

\* (variant that reports unconditionally)
CatchReports_always(a) == TRUE

\* loadAndInit catch: `if (mounted) { setError(...) }`
CatchReports(a) == a.mounted

\* ------------------------------------------------------ pieces of handlers
\* (variant that goes back to the readiness wait)
Catch_retrying(base, i, msg) ==
    LET a == base[i]
        sets == CatchReports(a) /\ comp' = "mounted"
    IN /\ attempts' = [base EXCEPT ![i] = [a EXCEPT !.pc = "wait", !.errSet = sets,
                                                    !.failed = msg]]
       /\ error' = IF sets THEN msg ELSE error
       /\ UNCHANGED <<mindFileUrl, mindarRef>>

\* loadAndInit's catch block for attempt i failing with message msg.
Catch(base, i, msg) ==
    LET a == base[i]
        sets == CatchReports(a) /\ comp' = "mounted"
    IN /\ attempts' = [base EXCEPT ![i] = [a EXCEPT !.pc = "error", !.errSet = sets,
                                                    !.failed = msg]]
       /\ error' = IF sets THEN msg ELSE error
       /\ UNCHANGED <<mindFileUrl, mindarRef>>

\* initAR(url) up to `await mindarThree.start()`: a is attempt i holding its URL.
initAR(base, i, a) ==
    IF comp' # "mounted"
    THEN \* containerRef.current is null: early return
         /\ attempts' = [base EXCEPT ![i] = [a EXCEPT !.pc = "dropped"]]
         /\ UNCHANGED mindarRef
    ELSE /\ attempts' = [base EXCEPT ![i] = [a EXCEPT !.pc = "start", !.eng = "pending"]]
         /\ mindarRef' = i

\* loadAndInit after compileTargetImage resolved with a URL for attempt i.
Resolved(base, i, a) ==
    /\ error' = error
    /\ IF StillMounted(a)
       THEN /\ mindFileUrl' = IF comp' = "mounted" THEN i ELSE mindFileUrl
            /\ initAR(base, i, a)
       ELSE /\ attempts' = [base EXCEPT ![i] = [a EXCEPT !.pc = "dropped"]]
            /\ UNCHANGED <<mindFileUrl, mindarRef>>

\* compileTargetImage(imageSrc) up to its first suspension.
compileTargetImage(base, i) ==
    LET a == base[i] IN
    IF CacheHas(a.img)
    THEN Resolved(base, i, [a EXCEPT !.hit = TRUE, !.url = TRUE, !.blob = arTargets[a.img]])
    ELSE /\ attempts' = [base EXCEPT ![i].pc = "decode"]
         /\ UNCHANGED <<mindFileUrl, mindarRef, error>>

\* (variant without the check that follows the loop)
AfterWait_unchecked(base, i) == compileTargetImage(base, i)

\* loadAndInit after the readiness loop has been left.
AfterWait(base, i) ==
    IF libs # Libs
    THEN Catch(base, i, ErrLoad)
    ELSE compileTargetImage(base, i)

\* (variant that does not wait for the engine modules)
loadAndInit_eager(base, i) == compileTargetImage(base, i)

\* The effect body: `let mounted = true; loadAndInit();` up to its first suspension.
loadAndInit(base, i) ==
    IF libs # Libs
    THEN /\ attempts' = base
         /\ UNCHANGED <<mindFileUrl, mindarRef, error>>
    ELSE AfterWait(base, i)

\* The effect cleanup of the current (latest) attempt, as a new attempts sequence:
\* `mounted = false; if (mindarRef.current) mindarRef.current.stop()`.
\* The component never calls renderer.setAnimationLoop(null), so an installed
\* animation loop stays installed.  After its cleanup has run, the closure's
\* captured mindFileUrl is dead and is cleared here.
Cleanup(as) ==
    LET c == Len(as)
        a1 == [as EXCEPT ![c].mounted = FALSE, ![c].tornAt = as[c].pc, ![c].captured = 0,
                        ![c].again = FALSE]
        e == a1[mindarRef]
    IN IF mindarRef # 0
       THEN [a1 EXCEPT ![mindarRef] =
                [e EXCEPT !.stopped = TRUE,
                          !.restop = @ \/ e.eng = "stopped",
                          !.eng = IF @ = "running" THEN "stopped" ELSE @,
                          !.vis = FALSE]]
       ELSE a1

CleanupRevokes(as) ==
    IF as[Len(as)].captured # 0 THEN {as[Len(as)].captured} ELSE {}

\* ---------------------------------------------------------------- actions
\* The CDN script defining window.MINDAR or window.THREE finishes evaluating.
LibLoaded(l) ==
    /\ l \notin libs
    /\ libs' = libs \cup {l}
    /\ UNCHANGED <<badImages, comp, targetImageSrc, videoSrc, attempts, mindarRef, mindFileUrl,
                   isInitialized, error, arTargets, revoked, isTracking,
                   videoPlaying>>
    /\ UNCHANGED <<modalVars, loaderVars, appVars>>

\* handleUploadComplete, first time: MindARScene mounts and its effects run.
StartSessionFirst(img, vid) ==
    /\ comp = "init"
    /\ comp' = "mounted"
    /\ targetImageSrc' = img
    /\ videoSrc' = vid
    /\ loadAndInit(<<NewAttempt(img, mindFileUrl)>>, 1)
    /\ UNCHANGED <<badImages, libs, isInitialized, arTargets, revoked, isTracking, videoPlaying>>
    /\ UNCHANGED <<modalVars, loaderVars, appVars>>

\* (variant whose replacement empties the compiled-target cache)
StartSessionReplace_evicting(img, vid) ==
    /\ comp = "mounted"
    /\ img # targetImageSrc
    /\ Len(attempts) < MaxAttempts
    /\ comp' = comp
    /\ targetImageSrc' = img
    /\ videoSrc' = vid
    /\ revoked' = revoked \cup CleanupRevokes(attempts)
    /\ videoPlaying' = IF vid # videoSrc THEN FALSE ELSE videoPlaying
    /\ loadAndInit(Append(Cleanup(attempts), NewAttempt(img, mindFileUrl)),
                   Len(attempts) + 1)
    /\ arTargets' = [x \in Images |-> 0]
    /\ UNCHANGED <<badImages, libs, isInitialized, isTracking>>
    /\ UNCHANGED <<modalVars, loaderVars, appVars>>

\* handleUploadComplete with another image: cleanup of the running effect,
\* then the effect runs again.
StartSessionReplace(img, vid) ==
    /\ comp = "mounted"
    /\ img # targetImageSrc
    /\ Len(attempts) < MaxAttempts
    /\ comp' = comp
    /\ targetImageSrc' = img
    /\ videoSrc' = vid
    /\ revoked' = revoked \cup CleanupRevokes(attempts)
    /\ videoPlaying' = IF vid # videoSrc THEN FALSE ELSE videoPlaying
    /\ loadAndInit(Append(Cleanup(attempts), NewAttempt(img, mindFileUrl)),
                   Len(attempts) + 1)
    /\ UNCHANGED <<badImages, libs, isInitialized, arTargets, isTracking>>
    /\ UNCHANGED <<modalVars, loaderVars, appVars>>

\* (variant whose effect also depends on videoSrc)
StartSessionSame_restarting(img, vid) ==
    /\ comp = "mounted"
    /\ img = targetImageSrc
    /\ Len(attempts) < MaxAttempts
    /\ comp' = comp
    /\ targetImageSrc' = img
    /\ videoSrc' = vid
    /\ revoked' = revoked \cup CleanupRevokes(attempts)
    /\ videoPlaying' = IF vid # videoSrc THEN FALSE ELSE videoPlaying
    /\ loadAndInit(Append(Cleanup(attempts), NewAttempt(img, mindFileUrl)),
                   Len(attempts) + 1)
    /\ UNCHANGED <<badImages, libs, isInitialized, arTargets, isTracking>>
    /\ UNCHANGED <<modalVars, loaderVars, appVars>>

\* handleUploadComplete with the image already shown: the load-and-init effect
\* is not re-run (its dependency targetImageSrc is unchanged).
StartSessionSame(img, vid) ==
    /\ comp = "mounted"
    /\ img = targetImageSrc
    /\ videoSrc' = vid
    /\ videoPlaying' = IF vid # videoSrc THEN FALSE ELSE videoPlaying
    /\ attempts' = [attempts EXCEPT ![Len(attempts)].again =
                        @ \/ (attempts[Len(attempts)].pc = "error" /\ vid = videoSrc)]
    /\ UNCHANGED <<badImages, libs, comp, targetImageSrc, mindarRef, mindFileUrl,
                   isInitialized, error, arTargets, revoked, isTracking>>
    /\ UNCHANGED <<modalVars, loaderVars, appVars>>

\* (variant whose readiness loop has no time limit)
PollWake_untimed(i, t) ==
    /\ attempts[i].pc = "wait"
    /\ t >= attempts[i].elapsed + PollInterval
    /\ comp' = comp
    /\ LET base == [attempts EXCEPT ![i].elapsed = t] IN
       IF libs # Libs
       THEN /\ attempts' = base
            /\ UNCHANGED <<mindFileUrl, mindarRef, error>>
       ELSE AfterWait([attempts EXCEPT ![i].elapsed = 0], i)
    /\ UNCHANGED <<badImages, libs, targetImageSrc, videoSrc, isInitialized, arTargets,
                   revoked, isTracking, videoPlaying>>
    /\ UNCHANGED <<modalVars, loaderVars, appVars>>

\* The readiness loop's setTimeout fires; t is Date.now() - startTime.
PollWake(i, t) ==
    /\ attempts[i].pc = "wait"
    /\ t >= attempts[i].elapsed + PollInterval
    /\ comp' = comp
    /\ LET base == [attempts EXCEPT ![i].elapsed = t] IN
       IF libs # Libs /\ t < maxWaitTime
       THEN /\ attempts' = base
            /\ UNCHANGED <<mindFileUrl, mindarRef, error>>
       ELSE \* the loop is left; elapsed is dead unless the attempt times out
            AfterWait([attempts EXCEPT ![i].elapsed = IF libs # Libs THEN t ELSE 0], i)
    /\ UNCHANGED <<badImages, libs, targetImageSrc, videoSrc, isInitialized, arTargets,
                   revoked, isTracking, videoPlaying>>
    /\ UNCHANGED <<modalVars, loaderVars, appVars>>

\* (variant that compiles whatever the image element holds)
ImageDecoded_undecoded(i) ==
    /\ attempts[i].pc = "decode"
    /\ attempts' = [attempts EXCEPT ![i].pc = "compile", ![i].ci = TRUE]
    /\ UNCHANGED <<badImages, libs, comp, targetImageSrc, videoSrc, mindarRef, mindFileUrl,
                   isInitialized, error, arTargets, revoked, isTracking,
                   videoPlaying>>
    /\ UNCHANGED <<modalVars, loaderVars, appVars>>

\* img.onload: the engine's compileImageTargets is invoked.
ImageDecoded(i) ==
    /\ attempts[i].pc = "decode"
    /\ Decodable(attempts[i].img)
    /\ attempts' = [attempts EXCEPT ![i].pc = "compile", ![i].ci = TRUE]
    /\ UNCHANGED <<badImages, libs, comp, targetImageSrc, videoSrc, mindarRef, mindFileUrl,
                   isInitialized, error, arTargets, revoked, isTracking,
                   videoPlaying>>
    /\ UNCHANGED <<modalVars, loaderVars, appVars>>

\* img.onerror
ImageError(i) ==
    /\ attempts[i].pc = "decode"
    /\ ~Decodable(attempts[i].img)
    /\ comp' = comp
    /\ Catch(attempts, i, ErrImage)
    /\ UNCHANGED <<badImages, libs, targetImageSrc, videoSrc, isInitialized, arTargets,
                   revoked, isTracking, videoPlaying>>
    /\ UNCHANGED <<modalVars, loaderVars, appVars>>

\* compiler.compileImageTargets settles.
CompileSettled(i, ok) ==
    /\ attempts[i].pc = "compile"
    /\ comp' = comp
    /\ IF ok
       THEN /\ attempts' = [attempts EXCEPT ![i].pc = "export"]
            /\ UNCHANGED <<mindFileUrl, mindarRef, error>>
       ELSE Catch(attempts, i, ErrEngine)
    /\ UNCHANGED <<badImages, libs, targetImageSrc, videoSrc, isInitialized, arTargets,
                   revoked, isTracking, videoPlaying>>
    /\ UNCHANGED <<modalVars, loaderVars, appVars>>

\* (variant that caches the blob only for an attempt still mounted)
ExportSettled_guarded(i, ok) ==
    /\ attempts[i].pc = "export"
    /\ comp' = comp
    /\ IF ok
       THEN /\ arTargets' = IF attempts[i].mounted
                             THEN [arTargets EXCEPT ![attempts[i].img] = i]
                             ELSE arTargets
            /\ Resolved(attempts, i, [attempts[i] EXCEPT !.url = TRUE, !.blob = i])
       ELSE /\ arTargets' = arTargets
            /\ Catch(attempts, i, ErrEngine)
    /\ UNCHANGED <<badImages, libs, targetImageSrc, videoSrc, isInitialized,
                   revoked, isTracking, videoPlaying>>
    /\ UNCHANGED <<modalVars, loaderVars, appVars>>

\* compiler.exportData settles; on success the blob is cached and an object URL made.
ExportSettled(i, ok) ==
    /\ attempts[i].pc = "export"
    /\ comp' = comp
    /\ IF ok
       THEN /\ arTargets' = [arTargets EXCEPT ![attempts[i].img] = i]
            /\ Resolved(attempts, i, [attempts[i] EXCEPT !.url = TRUE, !.blob = i])
       ELSE /\ arTargets' = arTargets
            /\ Catch(attempts, i, ErrEngine)
    /\ UNCHANGED <<badImages, libs, targetImageSrc, videoSrc, isInitialized,
                   revoked, isTracking, videoPlaying>>
    /\ UNCHANGED <<modalVars, loaderVars, appVars>>

\* mindarThree.start() settles.  honoured: the engine, stopped while its start was
\* pending, does not run once the start resolves (engine-defined).
StartSettled(i, ok, honoured) ==
    /\ attempts[i].pc = "start"
    /\ LET a == attempts[i]
           live == comp = "mounted"
       IN IF ok
          THEN /\ isInitialized' = IF live THEN TRUE ELSE isInitialized
               /\ error' = error
               /\ attempts' = [attempts EXCEPT ![i] =
                      [a EXCEPT !.pc = "started", !.loop = TRUE,
                                !.eng = IF a.stopped /\ honoured THEN "stopped" ELSE "running",
                                !.lateInit = ~a.mounted]]
          ELSE /\ isInitialized' = isInitialized
               /\ error' = IF live THEN ErrStart ELSE error
               /\ attempts' = [attempts EXCEPT ![i] =
                      [a EXCEPT !.pc = "error", !.eng = "failed", !.errSet = live,
                                !.failed = ErrStart]]
    /\ UNCHANGED <<badImages, libs, comp, targetImageSrc, videoSrc, mindarRef, mindFileUrl,
                   arTargets, revoked, isTracking, videoPlaying>>
    /\ UNCHANGED <<modalVars, loaderVars, appVars>>

\* anchor.onTargetFound of attempt i's engine instance.
TargetFound(i) ==
    /\ attempts[i].eng = "running"
    /\ ~attempts[i].vis
    /\ attempts' = [attempts EXCEPT ![i].vis = TRUE,
                                    ![i].staleCb = @ \/ ~attempts[i].mounted]
    /\ isTracking' = IF comp = "mounted" THEN TRUE ELSE isTracking
    /\ videoPlaying' = IF comp = "mounted" THEN TRUE ELSE videoPlaying
    /\ UNCHANGED <<badImages, libs, comp, targetImageSrc, videoSrc, mindarRef, mindFileUrl,
                   isInitialized, error, arTargets, revoked>>
    /\ UNCHANGED <<modalVars, loaderVars, appVars>>

\* (variant whose onTargetLost handler does not report)
TargetLost_silent(i) ==
    /\ attempts[i].eng = "running"
    /\ attempts[i].vis
    /\ attempts' = [attempts EXCEPT ![i].vis = FALSE,
                                    ![i].staleCb = @ \/ ~attempts[i].mounted]
    /\ videoPlaying' = IF comp = "mounted" THEN FALSE ELSE videoPlaying
    /\ UNCHANGED <<badImages, libs, comp, targetImageSrc, videoSrc, mindarRef, mindFileUrl,
                   isInitialized, error, arTargets, revoked, isTracking>>
    /\ UNCHANGED <<modalVars, loaderVars, appVars>>

\* anchor.onTargetLost of attempt i's engine instance.
TargetLost(i) ==
    /\ attempts[i].eng = "running"
    /\ attempts[i].vis
    /\ attempts' = [attempts EXCEPT ![i].vis = FALSE,
                                    ![i].staleCb = @ \/ ~attempts[i].mounted]
    /\ isTracking' = IF comp = "mounted" THEN FALSE ELSE isTracking
    /\ videoPlaying' = IF comp = "mounted" THEN FALSE ELSE videoPlaying
    /\ UNCHANGED <<badImages, libs, comp, targetImageSrc, videoSrc, mindarRef, mindFileUrl,
                   isInitialized, error, arTargets, revoked>>
    /\ UNCHANGED <<modalVars, loaderVars, appVars>>

\* (variant whose teardown removes the engine globals)
Unmount_unloading ==
    /\ comp = "mounted"
    /\ comp' = "unmounted"
    /\ attempts' = Cleanup(attempts)
    /\ revoked' = revoked \cup CleanupRevokes(attempts)
    /\ videoPlaying' = FALSE
    /\ isTracking' = FALSE
    /\ isInitialized' = FALSE
    /\ error' = "none"
    /\ mindFileUrl' = 0
    /\ mindarRef' = 0
    /\ targetImageSrc' = "none"
    /\ videoSrc' = "none"
    /\ libs' = {}
    /\ UNCHANGED <<badImages, arTargets>>
    /\ UNCHANGED <<modalVars, loaderVars, appVars>>

\* MindARScene unmounts: the effect cleanup runs, the DOM nodes go away, and the
\* instance's state and refs (and those of ARExperience, which goes with it) cease
\* to exist; they are put back to their initial values.
Unmount ==
    /\ comp = "mounted"
    /\ comp' = "unmounted"
    /\ attempts' = Cleanup(attempts)
    /\ revoked' = revoked \cup CleanupRevokes(attempts)
    /\ videoPlaying' = FALSE
    /\ isTracking' = FALSE
    /\ isInitialized' = FALSE
    /\ error' = "none"
    /\ mindFileUrl' = 0
    /\ mindarRef' = 0
    /\ targetImageSrc' = "none"
    /\ videoSrc' = "none"
    /\ UNCHANGED <<badImages, libs, arTargets>>
    /\ UNCHANGED <<modalVars, loaderVars, appVars>>

Idx == 1..Len(attempts)

Next ==
    \/ \E l \in Libs : LibLoaded(l)
    \/ \E img \in Images, vid \in Videos : StartSessionFirst(img, vid)
    \/ \E img \in Images, vid \in Videos : StartSessionReplace(img, vid)
    \/ \E img \in Images, vid \in Videos : StartSessionSame(img, vid)
    \/ \E i \in Idx, t \in TimePoints : PollWake(i, t)
    \/ \E i \in Idx : ImageDecoded(i)
    \/ \E i \in Idx : ImageError(i)
    \/ \E i \in Idx, ok \in BOOLEAN : CompileSettled(i, ok)
    \/ \E i \in Idx, ok \in BOOLEAN : ExportSettled(i, ok)
    \/ \E i \in Idx, ok \in BOOLEAN, honoured \in BOOLEAN : StartSettled(i, ok, honoured)
    \/ \E i \in Idx : TargetFound(i)
    \/ \E i \in Idx : TargetLost(i)
    \/ Unmount

Spec == Init /\ [][Next]_vars

TypeOK ==
    /\ libs \subseteq Libs
    /\ comp \in {"init", "mounted", "unmounted"}
    /\ Len(attempts) <= MaxAttempts
    /\ \A i \in Idx : attempts[i].pc \in Pcs
    /\ mindarRef \in 0..Len(attempts)
    /\ mindFileUrl \in 0..Len(attempts)
    /\ error \in Errors \cup {"none"}

\* ================================================================ claims
\* Positions of loadAndInit before compileTargetImage has resolved.
PrePcs == {"wait", "decode", "compile", "export"}

\* Number of invocations of the engine's compileImageTargets for image x.
CompileCalls(as, x) == Cardinality({i \in 1..Len(as) : as[i].img = x /\ as[i].ci})

\* Attempt i was replaced by a later attempt before its compileTargetImage resolved.
SupersededEarly(i) == i < Len(attempts) /\ attempts[i].tornAt \in PrePcs

\* C1: single-flight compile -- for every image identity at most one engine
\* compile (compileImageTargets .. exportData) is in progress at any time, so a
\* second compileTargetImage for an image whose first compile is still running
\* never runs the engine step a second time.
C1_SingleFlight ==
    \A x \in Images :
        Cardinality({i \in Idx : attempts[i].img = x
                                 /\ attempts[i].pc \in {"compile", "export"}}) <= 1

\* C2: cache hit -- a session start for an image whose compiled target is in
\* arCache.targets takes that very blob, does not invoke compileImageTargets and
\* is at the engine start when the step ends; an attempt served from the cache
\* never invokes the engine compiler.
C2_CacheHit ==
    /\ [][\A x \in Images :
            (/\ arTargets[x] # 0
             /\ Len(attempts') = Len(attempts) + 1
             /\ attempts'[Len(attempts')].img = x)
            => /\ attempts'[Len(attempts')].pc = "start"
               /\ attempts'[Len(attempts')].blob = arTargets[x]
               /\ mindFileUrl' = Len(attempts')
               /\ CompileCalls(attempts', x) = CompileCalls(attempts, x)]_vars
    /\ [](\A i \in Idx : attempts[i].hit => ~attempts[i].ci)

C2_Witness ==
    \E i \in Idx : /\ i > 1
                   /\ attempts[i].hit
                   /\ attempts[i].pc = "started"
                   /\ attempts[i].blob # 0
                   /\ attempts[i].blob < i

\* C3: stale-result guard -- an attempt replaced by another image before its
\* compile completed never gets an engine instance or an animation loop, never
\* becomes the holder of mindFileUrl or mindarRef, and no onTrackingChange is
\* ever fired on its behalf.
C3_StaleCompileDiscarded ==
    \A i \in Idx :
        SupersededEarly(i)
        => /\ attempts[i].eng = "none"
           /\ ~attempts[i].loop
           /\ ~attempts[i].staleCb
           /\ mindFileUrl # i
           /\ mindarRef # i

C3_Witness ==
    \E i \in Idx :
        /\ SupersededEarly(i)
        /\ attempts[i].pc = "dropped"
        /\ attempts[i].url
        /\ attempts[i + 1].img # attempts[i].img
        /\ attempts[i + 1].eng = "running"
        /\ attempts[i + 1].vis
        /\ isTracking

\* C4: single active session -- at most one engine instance is running and at
\* most one animation loop is installed.
C4_SingleActive ==
    /\ Cardinality({i \in Idx : attempts[i].eng = "running"}) <= 1
    /\ Cardinality({i \in Idx : attempts[i].loop}) <= 1

\* C5: teardown releases the compiled-target handle -- the object URL an attempt
\* held when it was torn down has been revoked.
C5_UrlRevokedAtTeardown ==
    \A i \in Idx :
        (attempts[i].url /\ attempts[i].tornAt \notin (PrePcs \cup {"none"}))
        => i \in revoked

\* C6: late engine-start results are discarded -- an attempt torn down while its
\* mindarThree.start() was pending neither sets isInitialized, nor installs an
\* animation loop, nor sets the error.
C6_LateStartDiscarded ==
    \A i \in Idx :
        attempts[i].tornAt = "start"
        => /\ ~attempts[i].lateInit
           /\ ~attempts[i].loop
           /\ ~attempts[i].errSet

C8_NoErrorLeak ==
    LET n == Len(attempts) IN
    (/\ comp = "mounted"
     /\ n >= 2
     /\ attempts[n].pc = "started"
     /\ \E i \in 1..(n - 1) : attempts[i].tornAt = "error" /\ attempts[i].errSet
     /\ \A j \in Idx : ~(attempts[j].tornAt = "start" /\ attempts[j].errSet))
    => error = "none"

\* C9: retry after failure -- a start invoked with the same image and video while
\* the current attempt is in Error tears that attempt down and begins a new one.
C9_RetryRestarts ==
    [][\A i \in Idx :
          (~attempts[i].again /\ attempts'[i].again)
          => /\ Len(attempts') = Len(attempts) + 1
             /\ ~attempts'[i].mounted]_vars

\* C10: teardown idempotence -- no teardown calls stop() on an engine instance
\* that an earlier teardown has already stopped.
C10_NoSecondStop ==
    \A i \in Idx : ~attempts[i].restop

\* C11: loader timeout -- an attempt leaves the readiness wait with a failure
\* only when the modules are still missing and the 5000 ms budget is used up;
\* it then carries the load-failure error (setting it if still mounted), has
\* never invoked the compiler and has no engine instance, also after a teardown,
\* which stops no engine on its behalf.
C11_LoaderTimeout ==
    /\ [](\A i \in Idx : attempts[i].elapsed >= maxWaitTime => attempts[i].failed = ErrLoad)
    /\ [](\A i \in Idx :
            attempts[i].failed = ErrLoad
            => /\ attempts[i].pc = "error"
               /\ attempts[i].elapsed >= maxWaitTime
               /\ ~attempts[i].ci
               /\ ~attempts[i].url
               /\ attempts[i].eng = "none"
               /\ ~attempts[i].stopped
               /\ (attempts[i].mounted => error = ErrLoad))
    /\ [][\A i \in Idx :
            (attempts[i].pc = "wait" /\ attempts'[i].pc = "error")
            => libs # Libs /\ attempts'[i].failed = ErrLoad]_vars

C11_Witness ==
    \E i \in Idx : /\ attempts[i].failed = ErrLoad
                   /\ attempts[i].errSet
                   /\ attempts[i].tornAt = "error"
                   /\ comp = "unmounted"

\* Rank of a position of loadAndInit in the lifecycle
\* Bootstrapping < Compiling < Starting < started (Lost).
Rank(pc) ==
    CASE pc = "wait" -> 1
      [] pc \in {"decode", "compile", "export"} -> 2
      [] pc = "start" -> 3
      [] pc = "started" -> 4
      [] OTHER -> 5

\* C12: lifecycle order -- an attempt only moves forward through Bootstrapping,
\* Compiling, Starting, started; the compiler is invoked only with both modules
\* present, an engine instance exists only with a compiled target, and an engine
\* whose start has just completed has no target matched (Lost).
C12_LifecycleOrder ==
    /\ [][\A i \in Idx :
            \/ attempts'[i].pc = attempts[i].pc
            \/ /\ Rank(attempts'[i].pc) >= Rank(attempts[i].pc)
               /\ attempts'[i].pc = "started"
                  => attempts[i].pc = "start" /\ ~attempts'[i].vis]_vars
    /\ [](\A i \in Idx :
            /\ attempts[i].pc \in {"decode", "compile", "export"} => libs = Libs
            /\ attempts[i].ci => libs = Libs
            /\ attempts[i].eng # "none" => attempts[i].url /\ attempts[i].blob # 0
            /\ attempts[i].pc \in {"start", "started"} => attempts[i].eng # "none"
            /\ attempts[i].vis => attempts[i].pc = "started")

C12_Witness ==
    \E i \in Idx : /\ attempts[i].pc = "started"
                   /\ attempts[i].ci
                   /\ ~attempts[i].hit
                   /\ attempts[i].mounted
                   /\ attempts[i].eng = "running"
                   /\ ~attempts[i].vis
                   /\ ~isTracking

\* An engine instance emits targetFound / targetLost: its matched flag flips
\* while it keeps running.
Emits(i) ==
    /\ attempts[i].eng = "running"
    /\ attempts'[i].eng = "running"
    /\ attempts'[i].vis # attempts[i].vis

\* C13: event delivery -- every targetFound / targetLost an engine emits while
\* the scene is mounted sets isTracking to that event's value (true for found,
\* false for lost) in the same step, one event per step, and nothing but an
\* event (or the scene going away) changes isTracking: it always holds the
\* value of the last delivered event.
C13_EventDelivery ==
    /\ [][\A i \in Idx : (Emits(i) /\ comp = "mounted")
                         => /\ isTracking' = attempts'[i].vis
                            /\ \A j \in Idx \ {i} : ~Emits(j)]_vars
    /\ [][isTracking' # isTracking
          => \/ \E i \in Idx : Emits(i)
             \/ comp' = "unmounted"]_vars

C13_Witness ==
    /\ comp = "mounted"
    /\ attempts # <<>>
    /\ LET a == attempts[Len(attempts)]
       IN a.mounted /\ a.eng = "running" /\ a.vis /\ isTracking /\ videoPlaying

\* C20: initial tracking state -- in the step in which the start of the active
\* session's engine completes, isTracking is false, also when the session
\* replaced one that was torn down while its target was matched (no engine of
\* an earlier session being left pending or running).
C20_InitialTrackingFalse ==
    [][\A i \in Idx :
         (/\ attempts[i].pc = "start"
          /\ attempts'[i].pc = "started"
          /\ attempts'[i].mounted
          /\ attempts'[i].eng = "running"
          /\ \A j \in Idx \ {i} : attempts[j].eng \notin {"pending", "running"})
         => ~isTracking']_vars

\* C21: playback follows tracking -- in a mounted scene a targetFound leaves
\* the overlay video playing and a targetLost leaves it paused; while the
\* current session's engine runs, the video plays exactly when the last
\* delivered event was a targetFound; and a teardown (replacement or unmount)
\* leaves the video not playing.
C21_PlaybackFollowsTracking ==
    /\ [][\A i \in Idx : (Emits(i) /\ comp = "mounted")
                         => videoPlaying' = attempts'[i].vis]_vars
    /\ [](\A i \in Idx :
            (comp = "mounted" /\ i = Len(attempts) /\ attempts[i].mounted
             /\ attempts[i].eng = "running")
            => (videoPlaying <=> isTracking))
    /\ [][(comp = "mounted" /\ (Len(attempts') > Len(attempts) \/ comp' = "unmounted"))
          => ~videoPlaying']_vars

\* Attempt i's compileTargetImage rejects in this step.
CompileRejects(i) ==
    /\ attempts[i].failed = "none"
    /\ attempts'[i].failed \in {ErrImage, ErrEngine}

\* C22: compile failure handling -- the engine's compileImageTargets is invoked
\* only for an image that has been decoded; a compile that fails (decoding,
\* compileImageTargets or exportData) rejects from inside the compile step,
\* leaves arCache.targets as it was and puts no entry of its own there, creates
\* no object URL and no engine instance, and the attempt ends in Error for good.
C22_CompileFailure ==
    /\ [](\A i \in Idx : attempts[i].ci => Decodable(attempts[i].img))
    /\ [](\A i \in Idx :
            attempts[i].failed \in {ErrImage, ErrEngine}
            => /\ attempts[i].pc = "error"
               /\ attempts[i].eng = "none"
               /\ ~attempts[i].url
               /\ attempts[i].blob = 0
               /\ \A x \in Images : arTargets[x] # i
               /\ mindarRef # i
               /\ attempts[i].failed = ErrImage => ~attempts[i].ci)
    /\ [][\A i \in Idx :
            CompileRejects(i)
            => /\ attempts[i].pc \in {"decode", "compile", "export"}
               /\ arTargets' = arTargets
               /\ mindarRef' = mindarRef
               /\ attempts'[i].mounted /\ comp = "mounted" => error' = attempts'[i].failed]_vars

C22_Witness ==
    /\ \E i \in Idx : /\ attempts[i].failed = ErrEngine
                      /\ attempts[i].ci
                      /\ attempts[i].tornAt = "error"
                      /\ arTargets[attempts[i].img] = 0
    /\ \E j \in Idx : /\ attempts[j].failed = ErrImage
                      /\ attempts[j].errSet
                      /\ error = ErrImage

\* The steps of one attempt in the order loadAndInit takes them.
StepNo(pc) ==
    CASE pc = "wait" -> 1
      [] pc = "decode" -> 2
      [] pc = "compile" -> 3
      [] pc = "export" -> 4
      [] pc = "start" -> 5
      [] pc = "started" -> 6
      [] OTHER -> 7

\* C23: failures are terminal -- an attempt takes each step (readiness wait,
\* decode / compile / export, engine start) at most once, in order; an attempt
\* that failed stays in Error: after a load failure it never compiles, after a
\* load or compile failure it never has an engine instance, and no step of it
\* runs again; a new attempt begins only in a startSession call.
C23_FailuresTerminal ==
    /\ [][\A i \in Idx :
            \/ attempts'[i] = attempts[i]
            \/ attempts'[i].pc = attempts[i].pc
            \/ /\ StepNo(attempts'[i].pc) > StepNo(attempts[i].pc)
               /\ attempts[i].failed = "none"]_vars
    /\ [](\A i \in Idx :
            attempts[i].failed # "none"
            => /\ attempts[i].pc = "error"
               /\ attempts[i].failed = ErrLoad => ~attempts[i].ci
               /\ attempts[i].failed # ErrStart => attempts[i].eng = "none"
               /\ attempts[i].failed = ErrStart => attempts[i].eng = "failed")
    /\ [][\A i \in Idx :
            (attempts'[i] # attempts[i] /\ attempts[i].failed # "none")
            => /\ attempts'[i].failed = attempts[i].failed
               /\ attempts'[i].ci = attempts[i].ci
               /\ attempts'[i].eng = attempts[i].eng
               /\ attempts'[i].elapsed = attempts[i].elapsed]_vars
    /\ [][Len(attempts') # Len(attempts)
          => /\ Len(attempts') = Len(attempts) + 1
             /\ targetImageSrc' # targetImageSrc
             /\ attempts'[Len(attempts')].img = targetImageSrc']_vars

C23_Witness ==
    /\ libs = Libs
    /\ \E i \in Idx : /\ attempts[i].failed = ErrLoad
                      /\ attempts[i].pc = "error"
    /\ \E j \in Idx : /\ attempts[j].failed = ErrStart
                      /\ attempts[j].mounted
                      /\ attempts[j].again
                      /\ error = ErrStart
                      /\ ~isInitialized

\* C25: loader short-circuit -- an attempt that begins with both engine modules
\* defined spends no time in the readiness wait: when its first step ends it is
\* already decoding its image or, on a cache hit, starting its engine; and no
\* step, teardown included, undefines a module.
C25_LoaderShortCircuit ==
    /\ [][(libs = Libs /\ Len(attempts') = Len(attempts) + 1)
          => LET a == attempts'[Len(attempts')]
             IN /\ a.elapsed = 0
                /\ a.failed = "none"
                /\ IF arTargets[a.img] # 0
                   THEN a.pc = "start" /\ a.hit
                   ELSE a.pc = "decode"]_vars
    /\ [][libs \subseteq libs']_vars

C25_Witness ==
    LET n == Len(attempts) IN
    /\ n >= 2
    /\ attempts[n - 1].eng = "stopped"
    /\ attempts[n].pc = "decode"
    /\ attempts[n].elapsed = 0
    /\ attempts[n].mounted
    /\ libs = Libs

\* C26: the compiled-target cache never evicts -- an image identity that has an
\* entry in arCache.targets has one ever after (through session starts,
\* replacements, teardowns and failures), and every entry is the blob a
\* completed decode / compile / export of that very image produced.
C26_CacheNeverEvicts ==
    /\ [][\A x \in Images : arTargets[x] # 0 => arTargets'[x] # 0]_vars
    /\ [](\A x \in Images :
            arTargets[x] # 0
            => /\ arTargets[x] \in Idx
               /\ attempts[arTargets[x]].img = x
               /\ attempts[arTargets[x]].ci
               /\ ~attempts[arTargets[x]].hit
               /\ attempts[arTargets[x]].blob = arTargets[x]
               /\ attempts[arTargets[x]].failed \in {"none", ErrStart}
               /\ attempts[arTargets[x]].pc \notin PrePcs)

C26_Witness ==
    \E x \in Images :
        /\ arTargets[x] # 0
        /\ comp = "unmounted"
        /\ \E j \in Idx : /\ j > arTargets[x]
                          /\ attempts[j].failed \in {ErrImage, ErrEngine}
        /\ \E k \in Idx : /\ k > arTargets[x]
                          /\ attempts[k].hit
                          /\ attempts[k].blob = arTargets[x]

\* What of attempt i a restart would change: its engine, its position, its
\* compile flag and whether its effect is still live.
Session(as, i) ==
    <<as[i].pc, as[i].eng, as[i].ci, as[i].hit, as[i].url, as[i].blob, as[i].mounted,
      as[i].stopped, as[i].vis>>

\* C29: session identity is the image -- in a mounted scene a new attempt
\* begins (the running one being torn down first) exactly in the steps that
\* change targetImageSrc; a startSession with the current image only replaces
\* the overlay video source: no engine is stopped or created, nothing is
\* compiled, and the engine that holds the callbacks stays the same.
C29_SessionIdentity ==
    /\ [][(comp = "mounted" /\ comp' = "mounted")
          => /\ (Len(attempts') # Len(attempts)) <=> (targetImageSrc' # targetImageSrc)
             /\ Len(attempts') # Len(attempts)
                => /\ Len(attempts') = Len(attempts) + 1
                   /\ ~attempts'[Len(attempts)].mounted
                   /\ mindarRef # 0 => attempts'[mindarRef].stopped]_vars
    /\ [][(comp = "mounted" /\ videoSrc' # videoSrc /\ targetImageSrc' = targetImageSrc)
            => /\ videoSrc' \in Videos
               /\ comp' = "mounted"
               /\ Len(attempts') = Len(attempts)
               /\ \A i \in Idx : Session(attempts', i) = Session(attempts, i)
               /\ mindarRef' = mindarRef
               /\ mindFileUrl' = mindFileUrl
               /\ arTargets' = arTargets
               /\ revoked' = revoked
               /\ isInitialized' = isInitialized
               /\ isTracking' = isTracking]_vars

C29_Witness ==
    /\ comp = "mounted"
    /\ Len(attempts) = 1
    /\ attempts[1].mounted
    /\ attempts[1].eng = "running"
    /\ attempts[1].vis
    /\ isTracking
    /\ ~videoPlaying
    /\ isInitialized

\* C30: the initialized flag matches the current session -- isInitialized is
\* true only while the current attempt (the latest, not torn down) has its
\* engine start completed; in particular it is false from a replacement until
\* the new attempt's start completes (no start of a torn-down attempt having
\* completed late).
C30_InitializedMatchesSession ==
    (isInitialized /\ \A j \in Idx : ~attempts[j].lateInit)
    => /\ comp = "mounted"
       /\ attempts # << >>
       /\ attempts[Len(attempts)].mounted
       /\ attempts[Len(attempts)].pc = "started"

\* An attempt torn down before its compileTargetImage resolved whose own engine
\* compile then succeeded: it holds the exported blob and was dropped.
CompiledAfterTeardown(a) ==
    /\ a.tornAt \in PrePcs
    /\ a.pc = "dropped"
    /\ a.ci
    /\ a.url

\* C35: a superseded compile still feeds the cache -- when exportData resolves
\* for an attempt that was torn down meanwhile, the blob is stored in
\* arCache.targets under that attempt's image although the attempt is dropped
\* (no engine, no mindFileUrl); the image then stays cached, and every later
\* start with that image takes the cached blob, is at the engine start when
\* the step ends and invokes no compileImageTargets.
C35_SupersededCompileCached ==
    /\ [][\A i \in Idx :
            \/ attempts'[i] = attempts[i]
            \/ (attempts[i].pc = "export" /\ ~attempts[i].mounted /\ attempts'[i].url)
               => /\ arTargets'[attempts[i].img] = i
                  /\ attempts'[i].pc = "dropped"
                  /\ attempts'[i].eng = "none"
                  /\ mindFileUrl' = mindFileUrl
                  /\ mindarRef' = mindarRef]_vars
    /\ [](\A i \in Idx : CompiledAfterTeardown(attempts[i])
                          => arTargets[attempts[i].img] # 0)
    /\ [][\/ Len(attempts') = Len(attempts)
          \/ \A i \in Idx :
               (/\ CompiledAfterTeardown(attempts[i])
                /\ attempts'[Len(attempts')].img = attempts[i].img)
               => /\ attempts'[Len(attempts')].hit
                  /\ attempts'[Len(attempts')].blob = arTargets[attempts[i].img]
                  /\ attempts'[Len(attempts')].pc = "start"
                  /\ ~attempts'[Len(attempts')].ci
                  /\ CompileCalls(attempts', attempts[i].img)
                       = CompileCalls(attempts, attempts[i].img)]_vars

C35_Witness ==
    /\ Len(attempts) = 3
    /\ CompiledAfterTeardown(attempts[1])
    /\ attempts[1].tornAt = "compile"
    /\ attempts[2].img # attempts[1].img
    /\ attempts[3].img = attempts[1].img
    /\ attempts[3].hit
    /\ attempts[3].blob = 1
    /\ ~attempts[3].ci
    /\ attempts[3].pc = "started"

\* ------------------------------------------------ the scene with fair settling
\* What the environment owes attempt i: the readiness loop's timer fires, the
\* image element fires onload or onerror, and each of compileImageTargets,
\* exportData and start() resolves or rejects.
Settles(i) ==
    /\ i \in Idx
    /\ \/ \E t \in TimePoints : PollWake(i, t)
       \/ ImageDecoded(i)
       \/ ImageError(i)
       \/ \E ok \in BOOLEAN : CompileSettled(i, ok)
       \/ \E ok \in BOOLEAN : ExportSettled(i, ok)
       \/ \E ok \in BOOLEAN, honoured \in BOOLEAN : StartSettled(i, ok, honoured)

\* Timers fire and pending promises settle; nothing obliges the user to start
\* or leave a session, the scripts to load or the target to come into view.
\* Next with the effect runs capped at MaxFairAttempts.
FairNext ==
    \/ \E l \in Libs : LibLoaded(l)
    \/ \E img \in Images, vid \in Videos : StartSessionFirst(img, vid)
    \/ \E img \in Images, vid \in Videos :
          Len(attempts) < MaxFairAttempts /\ StartSessionReplace(img, vid)
    \/ \E img \in Images, vid \in Videos : StartSessionSame(img, vid)
    \/ \E i \in Idx, t \in TimePoints : PollWake(i, t)
    \/ \E i \in Idx : ImageDecoded(i)
    \/ \E i \in Idx : ImageError(i)
    \/ \E i \in Idx, ok \in BOOLEAN : CompileSettled(i, ok)
    \/ \E i \in Idx, ok \in BOOLEAN : ExportSettled(i, ok)
    \/ \E i \in Idx, ok \in BOOLEAN, honoured \in BOOLEAN : StartSettled(i, ok, honoured)
    \/ \E i \in Idx : TargetFound(i)
    \/ \E i \in Idx : TargetLost(i)
    \/ Unmount

FairSpec == Init /\ [][FairNext]_vars /\ \A i \in 1..MaxFairAttempts : WF_vars(Settles(i))

InProgress(a) == a.mounted /\ a.pc \in {"wait", "decode", "compile", "export", "start"}

\* C36: every attempt settles -- with timers firing and the engine's
\* operations settling, an attempt that is in the readiness wait, compiling or
\* starting and is not torn down eventually is started (isInitialized set,
\* animation loop installed) or failed (error set), unless it is torn down
\* first.
C36_EveryAttemptSettles ==
    \A i \in 1..MaxFairAttempts :
        (i \in Idx /\ InProgress(attempts[i]))
        ~> /\ i \in Idx
           /\ \/ ~attempts[i].mounted
              \/ attempts[i].pc = "started" /\ isInitialized /\ attempts[i].loop
              \/ attempts[i].pc = "error" /\ error # "none" /\ attempts[i].errSet

C36_Witness ==
    /\ Len(attempts) = 2
    /\ attempts[1].pc = "error"
    /\ attempts[1].failed = ErrLoad
    /\ attempts[1].elapsed = maxWaitTime
    /\ attempts[2].mounted
    /\ attempts[2].pc = "started"
    /\ attempts[2].ci
    /\ attempts[2].loop
    /\ isInitialized
    /\ error = ErrLoad

\* ================================================================ UploadModal
\* The scene before any session was started.
SceneAtRest ==
    /\ badImages = {}
    /\ libs = {}
    /\ comp = "init"
    /\ targetImageSrc = "none"
    /\ videoSrc = "none"
    /\ attempts = << >>
    /\ mindarRef = 0
    /\ mindFileUrl = 0
    /\ isInitialized = FALSE
    /\ error = "none"
    /\ arTargets = [x \in Images |-> 0]
    /\ revoked = {}
    /\ isTracking = FALSE
    /\ videoPlaying = FALSE

\* (variant that turns a non-array value into the empty list)
Normalize_drop(s) == IF s.k = "array" THEN s.v ELSE << >>

\* `Array.isArray(parsed) ? parsed : [parsed]` applied to JSON.parse of a
\* parseable store value.
Normalize(s) == IF s.k = "array" THEN s.v ELSE <<s.o>>

\* The load effect: getItem, `if (cached)`, JSON.parse, setCachedContents, all in
\* a try whose catch only logs.  Result: the new value of cachedContents.
LoadCache(st, mode, list) ==
    IF mode = "denied" THEN list
    ELSE IF st.k = "absent" THEN list
    ELSE IF st.k = "corrupt" THEN list
    ELSE Normalize(st)

\* (variant without the slice to five items)
Trim_none(contents) == contents

\* `if (contents.length > 5) contents = contents.slice(0, 5)`
Trim(contents) ==
    IF Len(contents) > Capacity THEN SubSeq(contents, 1, Capacity) ELSE contents

\* saveToCache(targetImg, vidUrl) at time ts.  Result: the store and the list
\* afterwards.  getItem or setItem throwing leaves both as they were (outer
\* catch); JSON.parse throwing makes contents the empty array (inner catch).
saveToCache(targetImg, vidUrl, ts, mode) ==
    LET newContent == Entry(targetImg, vidUrl, ts)
        read == IF store.k \in {"absent", "corrupt"} THEN << >> ELSE Normalize(store)
        contents == Trim(<<newContent>> \o read)
    IN IF mode # "ok"
       THEN [store |-> store, list |-> cachedContents]
       ELSE [store |-> Array(contents), list |-> contents]

\* `cachedContents.filter((_, i) => i !== index)`; position p is index p - 1.
Without(list, p) ==
    [k \in 1..(Len(list) - (IF p \in 1..Len(list) THEN 1 ELSE 0)) |->
        IF p \in 1..Len(list) /\ k >= p THEN list[k + 1] ELSE list[k]]

\* ------------------------------------------------------------ modal actions
\* "Upload Content" / "+" button of ARExperience: setIsUploadOpen(true); the
\* modal's load effect re-runs because isOpen changed.
OpenModal(mode) ==
    /\ ~isUploadOpen
    /\ isUploadOpen' = TRUE
    /\ cachedContents' = LoadCache(store, mode, cachedContents)
    /\ last' = Quiet
    /\ UNCHANGED <<targetImage, videoUrl, reading, isCompiling, compileProgress, store, clock, run>>
    /\ UNCHANGED <<sceneVars, loaderVars, appVars>>

\* The X and Cancel buttons: resetUploads(); onClose(); then the load effect.
CloseModal(mode) ==
    /\ isUploadOpen
    /\ isUploadOpen' = FALSE
    /\ targetImage' = "none"
    /\ videoUrl' = "none"
    /\ cachedContents' = LoadCache(store, mode, cachedContents)
    /\ last' = Quiet
    /\ UNCHANGED <<reading, isCompiling, compileProgress, store, clock, run>>
    /\ UNCHANGED <<sceneVars, loaderVars, appVars>>

\* handleImageUpload: a FileReader starts reading the chosen file.
handleImageUpload(img) ==
    /\ isUploadOpen
    /\ reading = "none"
    /\ reading' = img
    /\ last' = Quiet
    /\ UNCHANGED <<isUploadOpen, targetImage, videoUrl, isCompiling, compileProgress,
                   cachedContents, store, clock, run>>
    /\ UNCHANGED <<sceneVars, loaderVars, appVars>>

\* reader.onload: setTargetImage(data URL).
ReaderLoaded ==
    /\ reading # "none"
    /\ targetImage' = reading
    /\ reading' = "none"
    /\ last' = Quiet
    /\ UNCHANGED <<isUploadOpen, videoUrl, isCompiling, compileProgress,
                   cachedContents, store, clock, run>>
    /\ UNCHANGED <<sceneVars, loaderVars, appVars>>

\* handleVideoUpload: setVideoUrl(URL.createObjectURL(file)).
handleVideoUpload(vid) ==
    /\ isUploadOpen
    /\ videoUrl' = vid
    /\ last' = Quiet
    /\ UNCHANGED <<isUploadOpen, targetImage, reading, isCompiling, compileProgress,
                   cachedContents, store, clock, run>>
    /\ UNCHANGED <<sceneVars, loaderVars, appVars>>

\* handleStartAR up to its first await ("Start AR" is disabled while
\* !targetImage || !videoUrl || isCompiling).
handleStartAR ==
    /\ isUploadOpen
    /\ targetImage # "none"
    /\ videoUrl # "none"
    /\ ~isCompiling
    /\ clock < MaxRecords
    /\ isCompiling' = TRUE
    /\ compileProgress' = 0
    /\ run' = [pc |-> "progress", img |-> targetImage, vid |-> videoUrl]
    /\ last' = Quiet
    /\ UNCHANGED <<isUploadOpen, targetImage, videoUrl, reading, cachedContents, store, clock>>
    /\ UNCHANGED <<sceneVars, loaderVars, appVars>>

\* (variant whose interval is not cleared when the 1500 ms timeout fires)
ProgressTick_uncleared ==
    /\ run.pc \in {"progress", "settle"}
    /\ compileProgress' = IF compileProgress >= 90 THEN 90 ELSE compileProgress + 10
    /\ last' = Quiet
    /\ UNCHANGED <<isUploadOpen, targetImage, videoUrl, reading, isCompiling,
                   cachedContents, store, clock, run>>
    /\ UNCHANGED <<sceneVars, loaderVars, appVars>>

\* One firing of progressInterval; at most the firings due before the 1500 ms
\* timeout happen.
ProgressTick ==
    /\ run.pc = "progress"
    /\ (compileProgress \div 10 + 1) * TickInterval < CompileDelay
    /\ compileProgress' = IF compileProgress >= 90 THEN 90 ELSE compileProgress + 10
    /\ last' = Quiet
    /\ UNCHANGED <<isUploadOpen, targetImage, videoUrl, reading, isCompiling,
                   cachedContents, store, clock, run>>
    /\ UNCHANGED <<sceneVars, loaderVars, appVars>>

\* The 1500 ms timeout: clearInterval; setCompileProgress(100).
ProgressDone ==
    /\ run.pc = "progress"
    /\ compileProgress' = 100
    /\ run' = [run EXCEPT !.pc = "settle"]
    /\ last' = Quiet
    /\ UNCHANGED <<isUploadOpen, targetImage, videoUrl, reading, isCompiling,
                   cachedContents, store, clock>>
    /\ UNCHANGED <<sceneVars, loaderVars, appVars>>

\* (variant in which a failing store access ends handleStartAR)
FinishStartAR_blocking(mode) ==
    /\ run.pc = "settle"
    /\ LET saved == saveToCache(run.img, run.vid, clock + 1, mode)
           ok == mode = "ok" /\ store.k # "corrupt"
       IN /\ store' = saved.store
          /\ clock' = clock + 1
          /\ isCompiling' = FALSE
          /\ isUploadOpen' = IF ok THEN FALSE ELSE isUploadOpen
          /\ cachedContents' = IF isUploadOpen /\ ok
                               THEN LoadCache(saved.store, mode, saved.list)
                               ELSE saved.list
          /\ last' = Did(~ok, IF ok THEN Content(run.img, run.vid) ELSE NoContent)
    /\ run' = NoRun
    /\ UNCHANGED <<targetImage, videoUrl, reading, compileProgress>>
    /\ UNCHANGED <<sceneVars, loaderVars, appVars>>

\* The 300 ms timeout: saveToCache; setIsCompiling(false); onUploadComplete
\* (handleUploadComplete closes the modal); onClose; then the load effect if
\* isOpen changed.  The session handleUploadComplete starts is StartSession*.
FinishStartAR(mode) ==
    /\ run.pc = "settle"
    /\ LET saved == saveToCache(run.img, run.vid, clock + 1, mode)
       IN /\ store' = saved.store
          /\ cachedContents' = IF isUploadOpen
                               THEN LoadCache(saved.store, mode, saved.list)
                               ELSE saved.list
    /\ clock' = clock + 1
    /\ isCompiling' = FALSE
    /\ isUploadOpen' = FALSE
    /\ run' = NoRun
    /\ last' = Did(FALSE, Content(run.img, run.vid))
    /\ UNCHANGED <<targetImage, videoUrl, reading, compileProgress>>
    /\ UNCHANGED <<sceneVars, loaderVars, appVars>>

\* (variant that records the used entry again, as a new recording would)
handleUseCached_recording(p, mode) ==
    /\ isUploadOpen
    /\ p \in 1..Len(cachedContents)
    /\ clock < MaxRecords
    /\ isUploadOpen' = FALSE
    /\ LET saved == saveToCache(cachedContents[p].targetImage,
                                cachedContents[p].videoUrl, clock + 1, "ok")
       IN /\ store' = saved.store
          /\ cachedContents' = LoadCache(saved.store, mode, saved.list)
    /\ clock' = clock + 1
    /\ last' = Did(FALSE,
                   Content(cachedContents[p].targetImage, cachedContents[p].videoUrl))
    /\ UNCHANGED <<targetImage, videoUrl, reading, isCompiling, compileProgress, run>>
    /\ UNCHANGED <<sceneVars, loaderVars, appVars>>

\* handleUseCached(content) for the entry shown at position p.
handleUseCached(p, mode) ==
    /\ isUploadOpen
    /\ p \in 1..Len(cachedContents)
    /\ isUploadOpen' = FALSE
    /\ cachedContents' = LoadCache(store, mode, cachedContents)
    /\ last' = Did(FALSE,
                   Content(cachedContents[p].targetImage, cachedContents[p].videoUrl))
    /\ UNCHANGED <<targetImage, videoUrl, reading, isCompiling, compileProgress, store, clock, run>>
    /\ UNCHANGED <<sceneVars, loaderVars, appVars>>

\* handleDeleteCached(p - 1): setCachedContents, then setItem outside any try.
handleDeleteCached(p, mode) ==
    /\ isUploadOpen
    /\ LET newContents == Without(cachedContents, p)
       IN /\ cachedContents' = newContents
          /\ store' = IF mode = "ok" THEN Array(newContents) ELSE store
    /\ last' = Did(mode # "ok", NoContent)
    /\ UNCHANGED <<isUploadOpen, targetImage, videoUrl, reading, isCompiling,
                   compileProgress, clock, run>>
    /\ UNCHANGED <<sceneVars, loaderVars, appVars>>

\* Another script of the same origin overwrites the item while the page is
\* up; what an older build or the user left there is in UploadInit.
ExternalWrite(s) ==
    /\ store # s
    /\ store' = s
    /\ last' = Quiet
    /\ UNCHANGED <<isUploadOpen, targetImage, videoUrl, reading, isCompiling,
                   compileProgress, cachedContents, clock, run>>
    /\ UNCHANGED <<sceneVars, loaderVars, appVars>>

\* The page is loaded again: component state starts over, pending timers and
\* reads are gone, localStorage stays; the load effect runs on mount.
PageReload(mode) ==
    /\ isUploadOpen' = FALSE
    /\ targetImage' = "none"
    /\ videoUrl' = "none"
    /\ reading' = "none"
    /\ isCompiling' = FALSE
    /\ compileProgress' = 0
    /\ cachedContents' = LoadCache(store, mode, << >>)
    /\ run' = NoRun
    /\ last' = Quiet
    /\ UNCHANGED <<store, clock>>
    /\ UNCHANGED <<sceneVars, loaderVars, appVars>>

\* the files the user picks from
UploadImages == {"imgA"}
UploadVideos == {"vid1"}
ExternalStores == {Absent, Corrupt, Object(LegacyEntry)}
Positions == 1..(Capacity + 1)

UploadInit ==
    /\ SceneAtRest
    /\ LoaderAtRest
    /\ AppAtRest
    /\ isUploadOpen = FALSE
    /\ targetImage = "none"
    /\ videoUrl = "none"
    /\ reading = "none"
    /\ isCompiling = FALSE
    /\ compileProgress = 0
    /\ store \in ExternalStores \cup {Array(<< >>)}
    /\ \E mode \in ReadModes : cachedContents = LoadCache(store, mode, << >>)
    /\ clock = 0
    /\ run = NoRun
    /\ last = Quiet

UploadNext ==
    \/ \E mode \in ReadModes : OpenModal(mode)
    \/ \E mode \in ReadModes : CloseModal(mode)
    \/ \E img \in UploadImages : handleImageUpload(img)
    \/ ReaderLoaded
    \/ \E vid \in UploadVideos : handleVideoUpload(vid)
    \/ handleStartAR
    \/ ProgressTick
    \/ ProgressDone
    \/ \E mode \in StorageModes : FinishStartAR(mode)
    \/ \E p \in 1..Len(cachedContents), mode \in ReadModes : handleUseCached(p, mode)
    \/ \E p \in 1..(Len(cachedContents) + 1), mode \in WriteModes :
          handleDeleteCached(p, mode)
    \/ ExternalWrite(Corrupt)
    \/ \E mode \in ReadModes : PageReload(mode)

UploadSpec == UploadInit /\ [][UploadNext]_vars

UploadTypeOK ==
    /\ isUploadOpen \in BOOLEAN
    /\ isCompiling \in BOOLEAN
    /\ compileProgress \in 0..100
    /\ clock \in 0..MaxRecords
    /\ store.k \in {"absent", "corrupt", "object", "array"}
    /\ run.pc \in {"idle", "progress", "settle"}
    /\ isCompiling <=> run.pc # "idle"

\* ------------------------------------------------------- UploadModal claims
\* What a successful read of the store yields; the empty list where there is
\* nothing to parse.
Stored == IF store.k \in {"absent", "corrupt"} THEN << >> ELSE Normalize(store)
MostRecentFirst(list) ==
    \A k \in 1..(Len(list) - 1) : list[k].timestamp > list[k + 1].timestamp
Recorded(mode) == Entry(run.img, run.vid, clock + 1)
Loads(mode) == OpenModal(mode) \/ CloseModal(mode) \/ PageReload(mode)

\* C14: recent-content capacity -- a recording that succeeds puts the new
\* entry in front of what the store held, keeps the others in order and drops
\* what lies beyond the fifth place; so a store filled from empty holds the
\* min(n, 5) most recent recordings, most recent first, and the sixth
\* recording evicts the oldest.
C14_RecentCapacity ==
    /\ [][\A mode \in StorageModes :
            (FinishStartAR(mode) /\ mode = "ok")
            => /\ store'.k = "array"
               /\ Len(store'.v) = IF Len(Stored) + 1 > Capacity THEN Capacity
                                                                ELSE Len(Stored) + 1
               /\ store'.v[1] = Recorded(mode)
               /\ \A k \in 2..Len(store'.v) : store'.v[k] = Stored[k - 1]
               /\ cachedContents' = store'.v]_vars
    /\ [](store.k = "array"
          => /\ Len(store.v) <= Capacity
             /\ MostRecentFirst(store.v)
             /\ \A k \in 1..Len(store.v) : store.v[k].timestamp <= clock)

C14_Witness ==
    /\ clock = Capacity + 1
    /\ store.k = "array"
    /\ Len(store.v) = Capacity
    /\ \A k \in 1..Capacity : store.v[k].timestamp = Capacity + 2 - k
    /\ cachedContents = store.v

\* C15: delete by index -- handleDeleteCached with a position in range removes
\* exactly that entry from the displayed list and writes the result to the
\* store, keeping the order of the rest; out of range it leaves the list as it
\* was; it never throws.
C15_DeleteByIndex ==
    [][\A p \in Positions, mode \in WriteModes :
         handleDeleteCached(p, mode)
         => /\ ~last'.threw
            /\ IF p \in 1..Len(cachedContents)
               THEN /\ Len(cachedContents') = Len(cachedContents) - 1
                    /\ \A k \in 1..Len(cachedContents') :
                         cachedContents'[k] = cachedContents[IF k < p THEN k ELSE k + 1]
                    /\ store' = Array(cachedContents')
               ELSE cachedContents' = cachedContents]_vars

\* C16: corruption policy -- with an unparseable store a load shows the empty
\* list, whatever was shown before, and a recording leaves a store holding
\* only the new entry; neither throws.
C16_CorruptionPolicy ==
    /\ [][\A mode \in ReadModes :
            (Loads(mode) /\ mode = "ok" /\ store.k = "corrupt")
            => cachedContents' = << >> /\ ~last'.threw]_vars
    /\ [][\A mode \in StorageModes :
            (FinishStartAR(mode) /\ mode = "ok" /\ store.k = "corrupt")
            => store' = Array(<<Recorded(mode)>>) /\ ~last'.threw]_vars

\* C17: legacy normalization -- a store holding one non-array JSON value is
\* read as the one-element list of that value, and a recording on it leaves
\* [new entry, legacy value].
C17_LegacyNormalization ==
    /\ [][\A mode \in ReadModes :
            (Loads(mode) /\ mode = "ok" /\ store.k = "object")
            => cachedContents' = <<store.o>>]_vars
    /\ [][\A mode \in StorageModes :
            (FinishStartAR(mode) /\ mode = "ok" /\ store.k = "object")
            => /\ store' = Array(<<Recorded(mode), store.o>>)
               /\ cachedContents' = <<Recorded(mode), store.o>>]_vars

C17_Witness ==
    /\ clock >= 1
    /\ store.k = "array"
    /\ Len(store.v) = 2
    /\ store.v[1].timestamp = clock
    /\ store.v[2] = LegacyEntry
    /\ cachedContents = store.v
    /\ last.notified # NoContent

\* C18 as stated: whenever reading, parsing or writing the store fails during
\* handleStartAR, nothing is thrown, the in-memory list stays as it was and
\* onUploadComplete is invoked with the chosen image and video.
C18_ListUnchangedOnFailure ==
    [][\A mode \in StorageModes :
         (FinishStartAR(mode) /\ (mode # "ok" \/ store.k = "corrupt"))
         => /\ ~last'.threw
            /\ cachedContents' = cachedContents
            /\ last'.notified = Content(run.img, run.vid)]_vars

\* C18 amended: no cache failure blocks the session -- handleStartAR always
\* ends without throwing, with isCompiling false, and invokes onUploadComplete
\* with the image and video it was started with.  If getItem or setItem
\* throws, the store stays as it was and the new entry is not in the list
\* (the list is as before, or as the load effect re-read it when the modal
\* closed); if the stored data is unparseable, store and list become the
\* one-element list of the new entry.
C18_CacheFailureNeverBlocks ==
    [][\A mode \in StorageModes :
         FinishStartAR(mode)
         => /\ ~last'.threw
            /\ last'.notified = Content(run.img, run.vid)
            /\ ~isCompiling'
            /\ ~isUploadOpen'
            /\ mode # "ok"
               => /\ store' = store
                  /\ \/ cachedContents' = cachedContents
                     \/ isUploadOpen /\ mode = "full" /\ cachedContents' = Stored
            /\ (mode = "ok" /\ store.k = "corrupt")
               => /\ store' = Array(<<Recorded(mode)>>)
                  /\ cachedContents' = <<Recorded(mode)>>]_vars

C18_Witness ==
    /\ last.notified = Content("imgA", "vid1")
    /\ clock >= 1
    /\ store = Absent
    /\ cachedContents = << >>
    /\ ~isCompiling

\* C28: progress monotonicity -- a handleStartAR run sets the progress to 0
\* when it begins; while the run lasts the value never decreases and stays
\* within 0..100; it is exactly 100 from the 1500 ms timeout on, through the
\* hand-over to onUploadComplete, and only the next run (or a page reload)
\* changes it again.
C28_ProgressMonotone ==
    /\ [][handleStartAR => compileProgress' = 0]_vars
    /\ [][(run.pc # "idle" /\ run'.pc # "idle") => compileProgress' >= compileProgress]_vars
    /\ [](compileProgress \in 0..100)
    /\ [](run.pc = "settle" => compileProgress = 100)
    /\ [][\A mode \in StorageModes :
            FinishStartAR(mode) => compileProgress = 100 /\ compileProgress' = 100]_vars
    /\ [][(compileProgress = 100 /\ compileProgress' # 100)
          => run.pc = "idle" \/ run'.pc = "idle"]_vars

C28_Witness ==
    /\ clock >= 1
    /\ run.pc = "progress"
    /\ compileProgress = 70

\* C31: persisted video handles stay usable -- no session is started with a
\* video reference that URL.createObjectURL returned in an earlier page load:
\* onUploadComplete is never called with the reference an entry left in the
\* store by an earlier page load carries.
C31_VideoHandleUsable ==
    last.notified.vid # EarlierVideo

\* C32: cancel wins over an in-flight start -- when the modal was closed with X
\* or Cancel while handleStartAR was waiting (the chosen files were reset, the
\* modal is still closed), the end of that run records nothing in the store
\* and does not invoke onUploadComplete.
C32_CancelWins ==
    [][\A mode \in StorageModes :
         (FinishStartAR(mode) /\ ~isUploadOpen /\ targetImage = "none")
         => /\ store' = store
            /\ last'.notified = NoContent]_vars

\* C33: the displayed list equals the persisted list -- after every load,
\* recording or delete whose store accesses succeeded, cachedContents is the
\* normalized content of the store, the empty list when the store is absent
\* or unparseable.
C33_ListEqualsStore ==
    /\ [][\A mode \in ReadModes :
            (Loads(mode) /\ mode = "ok") => cachedContents' = Stored']_vars
    /\ [][\A mode \in StorageModes :
            (FinishStartAR(mode) /\ mode = "ok") => cachedContents' = Stored']_vars
    /\ [][\A p \in Positions, mode \in WriteModes :
            (handleDeleteCached(p, mode) /\ mode = "ok")
            => cachedContents' = Stored']_vars

Oversized == [k \in 1..(Capacity + 1) |-> LegacyEntry]
ParseableStores == {Object(LegacyEntry), Array(<< >>), Array(Oversized)}

UploadAnyInit ==
    /\ SceneAtRest
    /\ LoaderAtRest
    /\ AppAtRest
    /\ isUploadOpen = FALSE
    /\ targetImage = "none"
    /\ videoUrl = "none"
    /\ reading = "none"
    /\ isCompiling = FALSE
    /\ compileProgress = 0
    /\ store \in ParseableStores
    /\ \E mode \in ReadModes : cachedContents = LoadCache(store, mode, << >>)
    /\ clock = 0
    /\ run = NoRun
    /\ last = Quiet

UploadAnySpec == UploadAnyInit /\ [][UploadNext]_vars

NonIncreasing(list) ==
    \A k \in 1..(Len(list) - 1) : list[k].timestamp >= list[k + 1].timestamp

\* C27: recent-content bound -- whatever parseable content the store starts
\* with, and however loads, recordings, deletions and uses interleave, the list
\* the modal shows has at most five entries, timestamps non-increasing from
\* front to back.
C27_RecentBound ==
    /\ Len(cachedContents) <= Capacity
    /\ NonIncreasing(cachedContents)

\* ============================================================ script loader
\* loadAndInit of the variant: each module is loaded by its own <script>
\* element unless its global is already defined.
\* The module a run waits for at a position, and the position that follows.
Awaited(pc) ==
    CASE pc = "three" -> "THREE"
      [] pc \in {"compiler", "compilerInit"} -> "Compiler"
      [] pc \in {"mindar", "mindarInit"} -> "MindARThree"
      [] OTHER -> "none"

\* Where run i continues when it proceeds from check number `from` (1: Three.js,
\* 2: Compiler, 3: MindARThree, 4: past the loads), the modules being `mods`:
\* the first missing module's load, or the 300 ms wait, or nowhere if the
\* effect was cleaned up.  Result: the new position and the module a script
\* element is appended for ("none" if none).
Proceed(from, mods, mounted) ==
    IF from <= 1 /\ "THREE" \notin mods THEN [pc |-> "three", issue |-> "THREE"]
    ELSE IF from <= 2 /\ "Compiler" \notin mods THEN [pc |-> "compiler", issue |-> "Compiler"]
    ELSE IF from <= 3 /\ "MindARThree" \notin mods
         THEN [pc |-> "mindar", issue |-> "MindARThree"]
    ELSE IF ~mounted THEN [pc |-> "dropped", issue |-> "none"]
    ELSE [pc |-> "settle", issue |-> "none"]

\* Run i moves on from check `from`.
Continue(base, i, from, mods) ==
    LET to == Proceed(from, mods, base[i].mounted)
    IN /\ loads' = [base EXCEPT ![i].pc = to.pc]
       /\ scripts' = IF to.issue = "none" THEN scripts
                     ELSE [scripts EXCEPT ![to.issue] = @ + 1]

\* The catch of loadAndInit, entered for a failure of the given kind.
SetupCatch(i, kind) ==
    LET shown == IF loads[i].mounted THEN ErrSetup ELSE "none"
    IN /\ loads' = [loads EXCEPT ![i].pc = "error", ![i].failed = kind, ![i].shown = shown]
       /\ setupError' = IF loads[i].mounted THEN ErrSetup ELSE setupError

\* The effect runs: on mount and whenever targetImageSrc changes; the cleanup
\* of the previous run sets its `mounted` to false.
LoaderEffect ==
    /\ Len(loads) < MaxAttempts
    /\ LET torn == IF loads = << >> THEN loads
                   ELSE [loads EXCEPT ![Len(loads)].mounted = FALSE]
       IN Continue(Append(torn, NewLoad), Len(loads) + 1, 1, winMods)
    /\ UNCHANGED <<winMods, setupError>>
    /\ UNCHANGED <<sceneVars, modalVars, appVars>>

\* script.onload of the element run i appended; the script has defined its
\* global (defines) or not.  Three.js resolves at once, the MindAR scripts
\* after a 200 ms timer.
ScriptLoaded(i, defines) ==
    /\ loads[i].pc \in {"three", "compiler", "mindar"}
    /\ LET mods == IF defines THEN winMods \cup {Awaited(loads[i].pc)} ELSE winMods
       IN /\ winMods' = mods
          /\ IF loads[i].pc = "three"
             THEN Continue(loads, i, 2, mods)
             ELSE /\ loads' = [loads EXCEPT ![i].pc =
                                  IF @ = "compiler" THEN "compilerInit" ELSE "mindarInit"]
                  /\ scripts' = scripts
    /\ UNCHANGED setupError
    /\ UNCHANGED <<sceneVars, modalVars, appVars>>

\* script.onerror of the element run i appended: reject, caught by loadAndInit.
ScriptFailed(i) ==
    /\ loads[i].pc \in {"three", "compiler", "mindar"}
    /\ SetupCatch(i, "setup")
    /\ UNCHANGED <<winMods, scripts>>
    /\ UNCHANGED <<sceneVars, modalVars, appVars>>

\* The 200 ms timer after a MindAR script's onload.
InitTimer(i) ==
    /\ loads[i].pc \in {"compilerInit", "mindarInit"}
    /\ Continue(loads, i, IF loads[i].pc = "compilerInit" THEN 3 ELSE 4, winMods)
    /\ UNCHANGED <<winMods, setupError>>
    /\ UNCHANGED <<sceneVars, modalVars, appVars>>

\* The 300 ms timer: the three globals are verified, then compileTargetImage
\* is called ("ready").
SettleTimer(i) ==
    /\ loads[i].pc = "settle"
    /\ IF winMods = LoaderMods
       THEN /\ loads' = [loads EXCEPT ![i].pc = "ready"]
            /\ setupError' = setupError
       ELSE SetupCatch(i, "setup")
    /\ UNCHANGED <<winMods, scripts>>
    /\ UNCHANGED <<sceneVars, modalVars, appVars>>

\* compileTargetImage of the variant settles: it resolves with an object URL
\* ("compiled"; dropped if the effect was cleaned up) or rejects because the
\* image could not be loaded or compiled.
VariantCompileSettled(i, ok) ==
    /\ loads[i].pc = "ready"
    /\ IF ok
       THEN /\ loads' = [loads EXCEPT ![i].pc = IF loads[i].mounted THEN "compiled"
                                                ELSE "dropped"]
            /\ setupError' = setupError
       ELSE SetupCatch(i, "image")
    /\ UNCHANGED <<winMods, scripts>>
    /\ UNCHANGED <<sceneVars, modalVars, appVars>>

\* The variant component unmounts: the cleanup of the last run.
LoaderUnmount ==
    /\ loads # << >>
    /\ loads[Len(loads)].mounted
    /\ loads' = [loads EXCEPT ![Len(loads)].mounted = FALSE]
    /\ UNCHANGED <<winMods, scripts, setupError>>
    /\ UNCHANGED <<sceneVars, modalVars, appVars>>

LoaderInit ==
    /\ SceneAtRest
    /\ ModalAtRest
    /\ AppAtRest
    /\ winMods \in SUBSET LoaderMods
    /\ scripts = [m \in LoaderMods |-> 0]
    /\ loads = << >>
    /\ setupError = "none"

Runs == 1..Len(loads)

LoaderNext ==
    \/ LoaderEffect
    \/ \E i \in Runs, defines \in BOOLEAN : ScriptLoaded(i, defines)
    \/ \E i \in Runs : ScriptFailed(i)
    \/ \E i \in Runs : InitTimer(i)
    \/ \E i \in Runs : SettleTimer(i)
    \/ \E i \in Runs, ok \in BOOLEAN : VariantCompileSettled(i, ok)
    \/ LoaderUnmount

LoaderSpec == LoaderInit /\ [][LoaderNext]_vars

LoaderTypeOK ==
    /\ winMods \subseteq LoaderMods
    /\ Len(loads) <= MaxAttempts
    /\ \A m \in LoaderMods : scripts[m] \in 0..MaxAttempts
    /\ setupError \in {"none", ErrSetup}

\* Script elements appended for module m whose load is still in flight.
InFlight(m) ==
    Cardinality({i \in Runs : loads[i].pc \in {"three", "compiler", "mindar"}
                              /\ Awaited(loads[i].pc) = m})

\* C19: loader idempotence -- a run of the load-and-init effect shares a script
\* load that is in flight: for no module are two script elements in flight at
\* once (as they would not be if at most one were ever issued).
C19_LoaderIdempotent ==
    \A m \in LoaderMods : InFlight(m) <= 1

\* C24: distinguishable errors -- a run that failed because an engine module
\* was not available and a run that failed because its image could not be
\* loaded or compiled never show the same error message.
C24_DistinguishableErrors ==
    \A i \in Runs, j \in Runs :
        (/\ loads[i].failed = "setup"
         /\ loads[j].failed = "image"
         /\ loads[i].shown # "none"
         /\ loads[j].shown # "none")
        => loads[i].shown # loads[j].shown

\* ================================================================ ARExperience
\* The application flow of ARExperience.tsx; UploadModal and MindARScene are
\* its environment here (the modal calls onUploadComplete and onClose, the
\* scene calls onTrackingChange while it is rendered).
otherSceneVars == <<badImages, libs, comp, targetImageSrc, videoSrc, attempts, mindarRef,
                    mindFileUrl, isInitialized, error, arTargets, revoked, videoPlaying>>

otherModalVars == <<targetImage, videoUrl, reading, isCompiling, compileProgress,
                    cachedContents, store, clock, run, last>>

\* `steps`: the progress values the loading interval shows one after another.
LoadingSteps == <<30, 60, 100>>

\* `currentStep`, recovered from the progress value shown.
currentStep ==
    IF loadingProgress = 0 THEN 0
    ELSE CHOOSE k \in 1..Len(LoadingSteps) : LoadingSteps[k] = loadingProgress

\* `appState === 'running' && arContent`: MindARScene, ARHeader, the "+" button
\* and ControlPanel are rendered.
SceneRendered == appState = "running" /\ arContent # NoContent

\* One firing of the loading effect's 500 ms interval.
LoadingTick ==
    /\ loadTimer = "interval"
    /\ IF currentStep < Len(LoadingSteps)
       THEN /\ loadingProgress' = LoadingSteps[currentStep + 1]
            /\ loadTimer' = loadTimer
       ELSE \* clearInterval; setTimeout(() => setAppState('permission'), 500)
            /\ loadTimer' = "timeout"
            /\ loadingProgress' = loadingProgress
    /\ UNCHANGED <<appState, mediaPending, arContent, isPanelOpen>>
    /\ UNCHANGED <<sceneVars, modalVars, loaderVars>>

\* The 500 ms timeout armed by the last interval firing.
LoadingDone ==
    /\ loadTimer = "timeout"
    /\ loadTimer' = "none"
    /\ appState' = "permission"
    /\ UNCHANGED <<loadingProgress, mediaPending, arContent, isPanelOpen>>
    /\ UNCHANGED <<sceneVars, modalVars, loaderVars>>

\* "Start" of PermissionPrompt (rendered while appState is 'permission', never
\* disabled): handleStartAR up to `await getUserMedia(...)`.
handleStartARClick ==
    /\ appState = "permission"
    /\ mediaPending < MaxMediaCalls
    /\ mediaPending' = mediaPending + 1
    /\ UNCHANGED <<appState, loadingProgress, loadTimer, arContent, isPanelOpen>>
    /\ UNCHANGED <<sceneVars, modalVars, loaderVars>>

\* A getUserMedia promise settles: setAppState('upload') after the await and in
\* the catch alike.
MediaSettled(granted) ==
    /\ mediaPending > 0
    /\ mediaPending' = mediaPending - 1
    /\ appState' = "upload"
    /\ UNCHANGED <<loadingProgress, loadTimer, arContent, isPanelOpen>>
    /\ UNCHANGED <<sceneVars, modalVars, loaderVars>>

\* "Upload Content" of the upload screen, or handleAddNew of the "+" button.
handleAddNew ==
    /\ appState = "upload" \/ SceneRendered
    /\ isUploadOpen' = TRUE
    /\ UNCHANGED appVars
    /\ UNCHANGED <<otherModalVars, sceneVars, loaderVars>>

\* The modal's onClose prop: setIsUploadOpen(false).
onClose ==
    /\ isUploadOpen
    /\ isUploadOpen' = FALSE
    /\ UNCHANGED appVars
    /\ UNCHANGED <<otherModalVars, sceneVars, loaderVars>>

\* handleUploadComplete(targetImage, videoUrl), called by the open modal.
handleUploadComplete(img, vid) ==
    /\ isUploadOpen
    /\ arContent' = Content(img, vid)
    /\ appState' = "running"
    /\ isUploadOpen' = FALSE
    /\ UNCHANGED <<loadingProgress, loadTimer, mediaPending, isPanelOpen>>
    /\ UNCHANGED <<otherModalVars, sceneVars, loaderVars>>

\* handleTrackingChange(tracking), called by the rendered MindARScene.
handleTrackingChange(tracking) ==
    /\ SceneRendered
    /\ isTracking' = tracking
    /\ UNCHANGED appVars
    /\ UNCHANGED <<otherSceneVars, modalVars, loaderVars>>

\* ARHeader's onMenuClick and ControlPanel's onClose.
setIsPanelOpen(open) ==
    /\ SceneRendered
    /\ isPanelOpen' = open
    /\ UNCHANGED <<appState, loadingProgress, loadTimer, mediaPending, arContent>>
    /\ UNCHANGED <<sceneVars, modalVars, loaderVars>>

AppInit ==
    /\ SceneAtRest
    /\ ModalAtRest
    /\ LoaderAtRest
    /\ AppAtRest

AppNext ==
    \/ LoadingTick
    \/ LoadingDone
    \/ handleStartARClick
    \/ \E granted \in BOOLEAN : MediaSettled(granted)
    \/ handleAddNew
    \/ onClose
    \/ \E img \in Images, vid \in Videos : handleUploadComplete(img, vid)
    \/ \E tracking \in BOOLEAN : handleTrackingChange(tracking)
    \/ \E open \in BOOLEAN : setIsPanelOpen(open)

AppSpec == AppInit /\ [][AppNext]_vars

AppTypeOK ==
    /\ appState \in {"loading", "permission", "upload", "running"}
    /\ loadingProgress \in {0, 30, 60, 100}
    /\ loadTimer \in {"interval", "timeout", "none"}
    /\ mediaPending \in 0..MaxMediaCalls
    /\ isPanelOpen \in BOOLEAN

\* ------------------------------------------------------- ARExperience claims
\* Place of an appState in loading -> permission -> upload -> running.
AppRank(st) ==
    CASE st = "loading" -> 0
      [] st = "permission" -> 1
      [] st = "upload" -> 2
      [] st = "running" -> 3

\* While appState is running, arContent is set.
RunningHasContent == appState = "running" => arContent # NoContent

\* Every getUserMedia settlement in the permission step, granted or denied,
\* advances to upload.
PermissionAdvances ==
    [][\A granted \in BOOLEAN :
         (MediaSettled(granted) /\ appState = "permission") => appState' = "upload"]_vars

\* C37: application flow -- appState only moves forward along loading ->
\* permission -> upload -> running and never goes back; the permission step
\* advances to upload whether the camera permission is granted or denied; and
\* whenever appState is running, arContent is set.
C37_AppFlow ==
    /\ [][AppRank(appState') >= AppRank(appState)]_vars
    /\ PermissionAdvances
    /\ []RunningHasContent

====
